---- MODULE Spec2Model ----
(***************************************************************************)
(* Model of utils/excel_writer.py: ExcelWriter.write_to_excel and the      *)
(* passes it runs over the worksheet (cell population, row heights,        *)
(* column widths, row colours, column colours, flag-column hiding,         *)
(* borders/alignment, save).                                               *)
(*                                                                         *)
(* Text is a sequence of Unicode code points, so that "contains",          *)
(* "starts with" and the display width are computed, not assumed.          *)
(* A cell value is a record tagged "null" (None/NaN), "str", "num" or      *)
(* "bool".                                                                 *)
(***************************************************************************)
EXTENDS Integers, Sequences, FiniteSets, TLC

VARIABLES
    pc,                 \* position inside write_to_excel
    df,                 \* argument df: [columns, rows]
    sheet_name,         \* argument sheet_name
    title,              \* self.ws.title
    cells,              \* self.ws cells: <<row, column>> -> cell
    row_dimensions,     \* self.ws.row_dimensions: row -> height (tenths of a unit)
    column_dimensions,  \* self.ws.column_dimensions: letter -> [width, hidden]
    file,               \* what wb.save persisted
    err                 \* the exception that left write_to_excel, or "none"

vars == <<pc, df, sheet_name, title, cells, row_dimensions, column_dimensions, file, err>>

----------------------------------------------------------------------------
\* Bounds of the model

MaxRows == 2

----------------------------------------------------------------------------
\* Program constants

COLOR_GREEN == "C6EFCE"
COLOR_RED == "FFC7CE"
COLOR_YELLOW == "FFEB9C"
COLOR_YELLOW_LIGHT == "FFF9E6"
COLOR_BLUE == "DDEBF7"
COLOR_BLUE_LIGHT == "F0F6FC"
HEADER_FILL == "D9D9D9"
NO_FILL == "none"

DefaultHeight == 15
MinWidth == 10
MaxWidth == 60
WidthPadding == 2
AsciiMax == 127
LetterA == 65
AlphabetSize == 26

\* '_' and the substrings the code looks for
FlagMarker == <<95>>
CandidateMarker == <<20505, 35036>>
AmountMarker == <<37329, 38989>>

\* the column names the code names literally
PartnerFlagCol == <<95, 21462, 24341, 20808, 23436, 20840, 19968, 33268>>
DeptFlagCol == <<95, 37096, 38272, 23436, 20840, 19968, 33268>>
SourcePartnerCol == <<83, 84, 82, 69, 65, 77, 69, 68, 20803, 12398, 21462, 24341, 20808>>
SourceDeptCol == <<83, 84, 82, 69, 65, 77, 69, 68, 20803, 12398, 37096, 38272>>
PartnerCand1 == <<21462, 24341, 20808, 20505, 35036, 49>>
PartnerCand2 == <<21462, 24341, 20808, 20505, 35036, 50>>
PartnerCand3 == <<21462, 24341, 20808, 20505, 35036, 51>>
DeptCand1 == <<37096, 38272, 20505, 35036, 49>>
DeptCand2 == <<37096, 38272, 20505, 35036, 50>>
DeptCand3 == <<37096, 38272, 20505, 35036, 51>>

----------------------------------------------------------------------------
\* Input tables

\* other column names used by the input tables
AmountCol == <<20511, 26041, 37329, 38989>>          \* an amount column
SummaryCol == <<25688, 35201>>                        \* a plain column
TaxCodeCol == <<116, 97, 120, 95, 99, 111, 100, 101>> \* "tax_code": '_' inside
CandMemoCol == <<20505, 35036, 12513, 12514>>         \* contains the candidate marker
NumberCol == <<78, 111>>                              \* "No"

Null == [t |-> "null"]
Str(s) == [t |-> "str", s |-> s]
Num(n) == [t |-> "num", n |-> n]
Bool(b) == [t |-> "bool", b |-> b]

Repeat(c, k) == [i \in 1..k |-> c]

EmptyText == Str(<< >>)
PartnerText == Str(<<65, 31038>>)
DeptText == Str(<<21942, 26989, 37096>>)
Wide5Text == Str(<<12354, 12356, 12358, 12360, 12362>>)
LongText == Str(Repeat(12354, 33))
AsciiText == Str(<<97, 98, 99>>)

Bools == {Bool(TRUE), Bool(FALSE)}
Sources(text) == {Null, EmptyText, text}
Amounts == {Null, Num(1234567), AsciiText}

Col(name, dom) == [name |-> name, dom |-> dom]

\* each schema: the ordered columns of a table with the values each may hold
Schemas ==
    { <<Col(PartnerFlagCol, Bools), Col(SourcePartnerCol, Sources(PartnerText)),
        Col(SummaryCol, {Wide5Text}), Col(PartnerCand1, {PartnerText})>>,
      <<Col(DeptFlagCol, Bools), Col(SourceDeptCol, Sources(DeptText)),
        Col(DeptCand1, {DeptText}), Col(DeptCand2, {Null})>>,
      <<Col(PartnerFlagCol, Bools), Col(DeptFlagCol, Bools),
        Col(SourcePartnerCol, Sources(PartnerText)),
        Col(SourceDeptCol, {EmptyText, DeptText}), Col(TaxCodeCol, {AsciiText})>>,
      <<Col(PartnerFlagCol, Bools), Col(DeptFlagCol, Bools),
        Col(SourceDeptCol, Sources(DeptText))>>,
      <<Col(PartnerFlagCol, Bools), Col(DeptFlagCol, Bools),
        Col(SourcePartnerCol, {EmptyText, PartnerText})>>,
      <<Col(AmountCol, Amounts), Col(SummaryCol, {Null, Wide5Text, LongText})>>,
      <<Col(PartnerFlagCol, Bools), Col(SourcePartnerCol, {EmptyText, PartnerText}),
        Col(PartnerCand2, {PartnerText}), Col(PartnerCand3, {Null}),
        Col(CandMemoCol, {AsciiText})>>,
      <<Col(DeptFlagCol, Bools), Col(SourceDeptCol, {Null, DeptText}),
        Col(DeptCand3, {DeptText}), Col(AmountCol, Amounts)>>,
      <<Col(PartnerFlagCol, Bools), Col(SummaryCol, {Wide5Text}), Col(NumberCol, {Num(7)})>>,
      <<Col(DeptFlagCol, Bools), Col(SummaryCol, {AsciiText}),
        Col(SourcePartnerCol, {Null, PartnerText})>> }

\* the schemas of the tables a later call on the same instance is given
CallSchemas ==
    { <<Col(PartnerFlagCol, {Bool(FALSE)}), Col(SourcePartnerCol, {EmptyText, PartnerText}),
        Col(AmountCol, {Num(1234567)})>>,
      <<Col(SummaryCol, {AsciiText})>>,
      <<Col(SummaryCol, {LongText}), Col(AmountCol, {AsciiText})>> }

SheetNames == {"Sheet1", "Result"}

RECURSIVE RowsOf(_, _)
\* every row (a sequence of values) columns i..Len(schema) of the schema allow
RowsOf(schema, i) ==
    IF i > Len(schema) THEN {<< >>}
    ELSE {<<v>> \o rest : v \in schema[i].dom, rest \in RowsOf(schema, i + 1)}

ColumnsOf(schema) == [i \in 1..Len(schema) |-> schema[i].name]

\* d is a table of one of the schemas, with at most MaxRows rows
IsTable(d, schemas) ==
    \E s \in schemas : \E n \in 0..MaxRows : \E rs \in [1..n -> RowsOf(s, 1)] :
        d = [columns |-> ColumnsOf(s), rows |-> rs]

----------------------------------------------------------------------------
\* Text and value helpers (Python / pandas primitives the code uses)

\* pattern in name
Contains(pattern, name) ==
    \E i \in 0..(Len(name) - Len(pattern)) :
        \A j \in 1..Len(pattern) : name[i + j] = pattern[j]

\* name.startswith(pattern)
StartsWith(pattern, name) ==
    /\ Len(pattern) <= Len(name)
    /\ \A j \in 1..Len(pattern) : name[j] = pattern[j]

\* pd.notna(value)
NotNa(v) == v.t # "null"

\* isinstance(value, (int, float)); bool is a subclass of int
IsNumber(v) == v.t \in {"num", "bool"}

\* truth value of a flag
Truthy(v) ==
    CASE v.t = "bool" -> v.b
      [] v.t = "num" -> v.n # 0
      [] v.t = "str" -> v.s # << >>

RECURSIVE Digits(_)
Digits(n) == IF n < 10 THEN <<48 + n>> ELSE Digits(n \div 10) \o <<48 + (n % 10)>>

\* str(value)
ToStr(v) ==
    CASE v.t = "str" -> v.s
      [] v.t = "num" -> Digits(v.n)
      [] v.t = "bool" -> IF v.b THEN <<84, 114, 117, 101>> ELSE <<70, 97, 108, 115, 101>>

NumRows(d) == Len(d.rows)
NumCols(d) == Len(d.columns)
HasColumn(d, name) == \E i \in 1..NumCols(d) : d.columns[i] = name
ColIndex(d, name) == CHOOSE i \in 1..NumCols(d) : d.columns[i] = name

\* df.at[row_idx, name], row_idx 0-based; the column exists
At(d, row_idx, name) == d.rows[row_idx + 1][ColIndex(d, name)]

----------------------------------------------------------------------------
\* Worksheet helpers (openpyxl)

DefaultCell ==
    [value |-> Null, bold |-> FALSE, fill |-> NO_FILL, number_format |-> "General",
     horizontal |-> "none", vertical |-> "none", border |-> "none"]

DefaultColumnDimension == [width |-> 13, hidden |-> FALSE]

EmptyMap == [k \in {} |-> 0]

\* ws.cell(row, column): the cell, created when it does not exist yet
GetCell(cs, r, c) == IF <<r, c>> \in DOMAIN cs THEN cs[<<r, c>>] ELSE DefaultCell

GetColumnDimension(cd, letter) ==
    IF letter \in DOMAIN cd THEN cd[letter] ELSE DefaultColumnDimension

MaxOf(S) == IF S = {} THEN 0 ELSE CHOOSE x \in S : \A y \in S : y <= x

----------------------------------------------------------------------------
\* Workbook()

\* faulty variant of NewWorkbook: the workbook of the previous call is reused
ReusedWorkbook ==
    [cells |-> cells, row_dimensions |-> row_dimensions,
     column_dimensions |-> column_dimensions]

NewWorkbook == [cells |-> EmptyMap, row_dimensions |-> EmptyMap, column_dimensions |-> EmptyMap]

----------------------------------------------------------------------------
\* write_to_excel, cell population

IsAmountColumn(col_name) == Contains(AmountMarker, col_name)

HeaderCell(cell, col_name) ==
    [cell EXCEPT !.value = Str(col_name), !.bold = TRUE, !.fill = HEADER_FILL]

\* faulty variant of DataCell: the isinstance / notna test is dropped
DataCellUnchecked(cell, col_name, value) ==
    IF IsAmountColumn(col_name)
    THEN [cell EXCEPT !.value = value, !.number_format = "#,##0",
                      !.horizontal = "right", !.vertical = "center"]
    ELSE [cell EXCEPT !.value = value]

DataCell(cell, col_name, value) ==
    IF IsAmountColumn(col_name) /\ IsNumber(value) /\ NotNa(value)
    THEN [cell EXCEPT !.value = value, !.number_format = "#,##0",
                      !.horizontal = "right", !.vertical = "center"]
    ELSE [cell EXCEPT !.value = value]

\* faulty variant of DataframeToRows: header=False
DataframeToRowsNoHeader(d) == d.rows

\* the rows dataframe_to_rows(df, index=False, header=True) yields
DataframeToRows(d) == <<d.columns>> \o d.rows

PopulateCells(cs, d) ==
    LET rows == DataframeToRows(d)
        written == {<<r, c>> : r \in 1..Len(rows), c \in 1..NumCols(d)}
    IN [k \in DOMAIN cs \cup written |->
          IF k \notin written THEN cs[k]
          ELSE IF k[1] = 1 THEN HeaderCell(GetCell(cs, k[1], k[2]), rows[1][k[2]])
          ELSE DataCell(GetCell(cs, k[1], k[2]), d.columns[k[2]], rows[k[1]][k[2]])]

----------------------------------------------------------------------------
\* _set_row_height

\* default_height * 1.5, in tenths of a unit
NewHeight == DefaultHeight * 15

HeightRows(d) == 1..(NumRows(d) + 1)

SetRowHeight(rd, d) ==
    [r \in DOMAIN rd \cup HeightRows(d) |-> IF r \in HeightRows(d) THEN NewHeight ELSE rd[r]]

----------------------------------------------------------------------------
\* _calculate_text_width, _get_column_letter, _auto_fit_columns

\* faulty variant of CalculateTextWidth: len(text), every character one unit wide
TextLength(text) == Len(text)

RECURSIVE CalculateTextWidth(_)
CalculateTextWidth(text) ==
    IF text = << >> THEN 0
    ELSE (IF Head(text) > AsciiMax THEN 2 ELSE 1) + CalculateTextWidth(Tail(text))

RECURSIVE GetColumnLetter(_)
GetColumnLetter(col_idx) ==
    IF col_idx > 0
    THEN GetColumnLetter((col_idx - 1) \div AlphabetSize)
            \o <<LetterA + ((col_idx - 1) % AlphabetSize)>>
    ELSE << >>

RECURSIVE ColumnMaxWidth(_, _, _, _)
\* the loop over df[column]: max_width after the values from row i on
ColumnMaxWidth(d, idx, i, max_width) ==
    IF i > NumRows(d) THEN max_width
    ELSE LET value == d.rows[i][idx]
             text_width == CalculateTextWidth(ToStr(value))
         IN IF NotNa(value) /\ text_width > max_width
            THEN ColumnMaxWidth(d, idx, i + 1, text_width)
            ELSE ColumnMaxWidth(d, idx, i + 1, max_width)

Min2(a, b) == IF a < b THEN a ELSE b
Max2(a, b) == IF a > b THEN a ELSE b

AdjustedWidth(max_width) == Min2(Max2(max_width + WidthPadding, MinWidth), MaxWidth)

ColumnWidth(d, idx) ==
    AdjustedWidth(ColumnMaxWidth(d, idx, 1, CalculateTextWidth(d.columns[idx])))

AutoFitColumns(cd, d) ==
    LET letters == {GetColumnLetter(idx) : idx \in 1..NumCols(d)}
        IdxOf(l) == CHOOSE idx \in 1..NumCols(d) : GetColumnLetter(idx) = l
    IN [l \in DOMAIN cd \cup letters |->
          IF l \in letters
          THEN [GetColumnDimension(cd, l) EXCEPT !.width = ColumnWidth(d, IdxOf(l))]
          ELSE cd[l]]

----------------------------------------------------------------------------
\* _color_row

ExcludePatterns == {CandidateMarker, FlagMarker}

\* the skip flag of _color_row for a column
Skipped(col_name, exclude_patterns) ==
    \E pattern \in exclude_patterns : Contains(pattern, col_name)

ColorRow(cs, excel_row, columns, color, exclude_patterns) ==
    LET touched == {<<excel_row, c>> : c \in {i \in 1..Len(columns) :
                                                ~Skipped(columns[i], exclude_patterns)}}
    IN [k \in DOMAIN cs \cup touched |->
          IF k \in touched THEN [GetCell(cs, k[1], k[2]) EXCEPT !.fill = color] ELSE cs[k]]

----------------------------------------------------------------------------
\* _apply_colors, the loop over the rows

MatchColor(flag) == IF Truthy(flag) THEN COLOR_GREEN ELSE COLOR_RED

\* pd.notna(has) and has != ''
HasSource(has) == NotNa(has) /\ has # EmptyText

\* the partner check of one row
PartnerCheck(cs, d, row_idx) ==
    IF HasColumn(d, PartnerFlagCol)
    THEN LET is_partner_match == At(d, row_idx, PartnerFlagCol)
             has_partner == IF HasColumn(d, SourcePartnerCol)
                            THEN At(d, row_idx, SourcePartnerCol) ELSE EmptyText
         IN IF HasSource(has_partner)
            THEN ColorRow(cs, row_idx + 2, d.columns, MatchColor(is_partner_match),
                          ExcludePatterns)
            ELSE cs
    ELSE cs

\* the department check reads df.at[row_idx, 'STREAMED元の取引先'] without asking
\* whether the column exists: KeyError
DeptCheckRaises(d, row_idx) ==
    /\ HasColumn(d, DeptFlagCol)
    /\ HasColumn(d, SourceDeptCol)
    /\ HasSource(At(d, row_idx, SourceDeptCol))
    /\ HasColumn(d, PartnerFlagCol)
    /\ ~HasColumn(d, SourcePartnerCol)

\* the department check of one row, when it does not raise
DeptCheck(cs, d, row_idx) ==
    IF HasColumn(d, DeptFlagCol)
    THEN LET is_dept_match == At(d, row_idx, DeptFlagCol)
             has_dept == IF HasColumn(d, SourceDeptCol)
                         THEN At(d, row_idx, SourceDeptCol) ELSE EmptyText
         IN IF HasSource(has_dept)
            THEN IF \/ ~HasColumn(d, PartnerFlagCol)
                    \/ ~NotNa(At(d, row_idx, SourcePartnerCol))
                    \/ At(d, row_idx, SourcePartnerCol) = EmptyText
                 THEN ColorRow(cs, row_idx + 2, d.columns, MatchColor(is_dept_match),
                               ExcludePatterns)
                 ELSE cs
            ELSE cs
    ELSE cs

RECURSIVE ColorRows(_, _, _)
\* rows row_idx..len(df)-1: the cells, and whether KeyError was raised on the way
ColorRows(cs, d, row_idx) ==
    IF row_idx >= NumRows(d) THEN [cells |-> cs, raised |-> FALSE]
    ELSE LET after_partner == PartnerCheck(cs, d, row_idx)
         IN IF DeptCheckRaises(d, row_idx)
            THEN [cells |-> after_partner, raised |-> TRUE]
            ELSE ColorRows(DeptCheck(after_partner, d, row_idx), d, row_idx + 1)

----------------------------------------------------------------------------
\* _color_candidate_columns, _color_column

\* the colour of the elif chain, "skip" when no branch matches
ColumnColor(col_name) ==
    IF col_name = SourcePartnerCol THEN COLOR_YELLOW_LIGHT
    ELSE IF col_name = PartnerCand1 THEN COLOR_YELLOW
    ELSE IF col_name \in {PartnerCand2, PartnerCand3} THEN COLOR_YELLOW_LIGHT
    ELSE IF col_name = SourceDeptCol THEN COLOR_BLUE_LIGHT
    ELSE IF col_name = DeptCand1 THEN COLOR_BLUE
    ELSE IF col_name \in {DeptCand2, DeptCand3} THEN COLOR_BLUE_LIGHT
    ELSE "skip"

\* faulty variant of ColumnRows: range(1, row_count + 2), the header included
ColumnRowsWithHeader(row_count) == 1..(row_count + 1)

\* range(2, row_count + 2)
ColumnRows(row_count) == 2..(row_count + 1)

ColorColumn(cs, col_idx, row_count, color) ==
    LET touched == {<<r, col_idx>> : r \in ColumnRows(row_count)}
    IN [k \in DOMAIN cs \cup touched |->
          IF k \in touched THEN [GetCell(cs, k[1], k[2]) EXCEPT !.fill = color] ELSE cs[k]]

RECURSIVE ColorCandidateColumns(_, _, _)
\* columns col_idx..len(columns)
ColorCandidateColumns(cs, d, col_idx) ==
    IF col_idx > NumCols(d) THEN cs
    ELSE LET color == ColumnColor(d.columns[col_idx])
         IN ColorCandidateColumns(
                IF color = "skip" THEN cs ELSE ColorColumn(cs, col_idx, NumRows(d), color),
                d, col_idx + 1)

----------------------------------------------------------------------------
\* _hide_flag_columns

\* faulty variant of IsFlagColumn: '_' in col_name
ContainsFlagMarker(col_name) == Contains(FlagMarker, col_name)

IsFlagColumn(col_name) == StartsWith(FlagMarker, col_name)

HideFlagColumns(cd, columns) ==
    LET letters == {GetColumnLetter(idx) : idx \in {i \in 1..Len(columns) :
                                                       IsFlagColumn(columns[i])}}
    IN [l \in DOMAIN cd \cup letters |->
          IF l \in letters THEN [GetColumnDimension(cd, l) EXCEPT !.hidden = TRUE]
          ELSE cd[l]]

----------------------------------------------------------------------------
\* _apply_borders

\* faulty variant of BorderAlignment: every cell left-aligned, amount columns too
BorderAlignmentAllLeft(cell, row_idx, col_idx, columns) ==
    [cell EXCEPT !.horizontal = "left", !.vertical = "center"]

\* the alignment branch of _apply_borders for one cell
BorderAlignment(cell, row_idx, col_idx, columns) ==
    IF row_idx > 1 /\ col_idx <= Len(columns)
    THEN IF IsAmountColumn(columns[col_idx])
         THEN IF cell.horizontal # "right"
              THEN [cell EXCEPT !.horizontal = "right", !.vertical = "center"]
              ELSE cell
         ELSE [cell EXCEPT !.horizontal = "left", !.vertical = "center"]
    ELSE [cell EXCEPT !.horizontal = "left", !.vertical = "center"]

\* ws.iter_rows(): every cell of rows 1..max_row, columns 1..max_column
IterRows(cs) ==
    {<<r, c>> : r \in 1..MaxOf({k[1] : k \in DOMAIN cs}),
                c \in 1..MaxOf({k[2] : k \in DOMAIN cs})}

ApplyBorders(cs, d) ==
    [k \in IterRows(cs) |->
        BorderAlignment([GetCell(cs, k[1], k[2]) EXCEPT !.border = "thin"],
                        k[1], k[2], d.columns)]

----------------------------------------------------------------------------
\* The state machine: one call of write_to_excel, pass by pass

NoFile == [written |-> FALSE]

Init ==
    /\ pc = "call"
    /\ IsTable(df, Schemas)
    /\ sheet_name = "Sheet1"
    /\ title = ""
    /\ cells = EmptyMap
    /\ row_dimensions = EmptyMap
    /\ column_dimensions = EmptyMap
    /\ file = NoFile
    /\ err = "none"

\* lines 40-61: a new workbook, the title, the cells
WriteToExcel ==
    /\ pc = "call"
    /\ pc' = "row_height"
    /\ title' = sheet_name
    /\ cells' = PopulateCells(NewWorkbook.cells, df)
    /\ row_dimensions' = NewWorkbook.row_dimensions
    /\ column_dimensions' = NewWorkbook.column_dimensions
    /\ UNCHANGED <<df, sheet_name, file, err>>

RowHeightPass ==
    /\ pc = "row_height"
    /\ pc' = "auto_fit"
    /\ row_dimensions' = SetRowHeight(row_dimensions, df)
    /\ UNCHANGED <<df, sheet_name, title, cells, column_dimensions, file, err>>

AutoFitPass ==
    /\ pc = "auto_fit"
    /\ pc' = "row_colors"
    /\ column_dimensions' = AutoFitColumns(column_dimensions, df)
    /\ UNCHANGED <<df, sheet_name, title, cells, row_dimensions, file, err>>

RowColorPass ==
    /\ pc = "row_colors"
    /\ LET res == ColorRows(cells, df, 0)
       IN /\ cells' = res.cells
          /\ pc' = IF res.raised THEN "raised" ELSE "column_colors"
          /\ err' = IF res.raised THEN "KeyError" ELSE err
    /\ UNCHANGED <<df, sheet_name, title, row_dimensions, column_dimensions, file>>

ColumnColorPass ==
    /\ pc = "column_colors"
    /\ pc' = "hide"
    /\ cells' = ColorCandidateColumns(cells, df, 1)
    /\ UNCHANGED <<df, sheet_name, title, row_dimensions, column_dimensions, file, err>>

HidePass ==
    /\ pc = "hide"
    /\ pc' = "borders"
    /\ column_dimensions' = HideFlagColumns(column_dimensions, df.columns)
    /\ UNCHANGED <<df, sheet_name, title, cells, row_dimensions, file, err>>

BorderPass ==
    /\ pc = "borders"
    /\ pc' = "save"
    /\ cells' = ApplyBorders(cells, df)
    /\ UNCHANGED <<df, sheet_name, title, row_dimensions, column_dimensions, file, err>>

Workbook == [written |-> TRUE, title |-> title, cells |-> cells,
             row_dimensions |-> row_dimensions, column_dimensions |-> column_dimensions]

\* wb.save(output_path) on a writable destination
Save ==
    /\ pc = "save"
    /\ pc' = "returned"
    /\ file' = Workbook
    /\ UNCHANGED <<df, sheet_name, title, cells, row_dimensions, column_dimensions, err>>

\* wb.save(output_path) on a destination that cannot be written
SaveFails ==
    /\ pc = "save"
    /\ pc' = "raised"
    /\ err' = "OSError"
    /\ UNCHANGED <<df, sheet_name, title, cells, row_dimensions, column_dimensions, file>>

\* the caller calls write_to_excel on the same instance again
NextCall ==
    /\ pc \in {"returned", "raised"}
    /\ pc' = "call"
    /\ IsTable(df', CallSchemas)
    /\ sheet_name' \in SheetNames
    /\ err' = "none"
    /\ UNCHANGED <<title, cells, row_dimensions, column_dimensions, file>>

Passes ==
    \/ WriteToExcel
    \/ RowHeightPass
    \/ AutoFitPass
    \/ RowColorPass
    \/ ColumnColorPass
    \/ HidePass
    \/ BorderPass
    \/ Save
    \/ SaveFails

Next == Passes

Spec == Init /\ [][Next]_vars

InitCalls ==
    /\ pc = "call"
    /\ IsTable(df, CallSchemas)
    /\ sheet_name \in SheetNames
    /\ title = ""
    /\ cells = EmptyMap
    /\ row_dimensions = EmptyMap
    /\ column_dimensions = EmptyMap
    /\ file = NoFile
    /\ err = "none"

NextCalls == Passes \/ NextCall

SpecCalls == InitCalls /\ [][NextCalls]_vars

----------------------------------------------------------------------------
\* What the claims speak of, stated from the table alone

DataRows(d) == 1..NumRows(d)
Columns(d) == 1..NumCols(d)
ValueAt(d, i, name) == d.rows[i][ColIndex(d, name)]
NonEmpty(v) == v.t # "null" /\ v # Str(<< >>)
FlagColour(v) == IF v.b THEN COLOR_GREEN ELSE COLOR_RED

\* rule (1) applies to data row i
PartnerRule(d, i) ==
    /\ HasColumn(d, PartnerFlagCol)
    /\ HasColumn(d, SourcePartnerCol)
    /\ NonEmpty(ValueAt(d, i, SourcePartnerCol))

\* rule (2) applies to data row i
DeptRule(d, i) ==
    /\ ~PartnerRule(d, i)
    /\ HasColumn(d, DeptFlagCol)
    /\ HasColumn(d, SourceDeptCol)
    /\ NonEmpty(ValueAt(d, i, SourceDeptCol))

RowColour(d, i) ==
    IF PartnerRule(d, i) THEN FlagColour(ValueAt(d, i, PartnerFlagCol))
    ELSE IF DeptRule(d, i) THEN FlagColour(ValueAt(d, i, DeptFlagCol))
    ELSE NO_FILL

HasMarker(name, marker) ==
    \E i \in 1..(Len(name) - Len(marker) + 1) : SubSeq(name, i, i + Len(marker) - 1) = marker

IsCandidateName(name) == HasMarker(name, CandidateMarker)
IsFlagName(name) == name # << >> /\ name[1] = 95
IsAmountName(name) == HasMarker(name, AmountMarker)

\* the fixed colour of the eight named columns
NamedColumns ==
    {SourcePartnerCol, PartnerCand1, PartnerCand2, PartnerCand3,
     SourceDeptCol, DeptCand1, DeptCand2, DeptCand3}

NamedColour(name) ==
    CASE name = SourcePartnerCol -> "FFF9E6"
      [] name = PartnerCand1 -> "FFEB9C"
      [] name \in {PartnerCand2, PartnerCand3} -> "FFF9E6"
      [] name = SourceDeptCol -> "F0F6FC"
      [] name = DeptCand1 -> "DDEBF7"
      [] name \in {DeptCand2, DeptCand3} -> "F0F6FC"

\* the row pass has ended, by finishing or by raising
RowPassEnded == pc = "column_colors" \/ (pc = "raised" /\ err = "KeyError")
AfterColumnPass == pc \in {"hide", "borders", "save", "returned"} \/ (pc = "raised" /\ err = "OSError")
AfterAutoFit == pc \notin {"call", "row_height", "auto_fit"}

----------------------------------------------------------------------------
\* C1: after the row pass, every data row carries the colour the priority
\* partner rule > department rule > none gives it (seen on the columns that
\* hold neither marker), for every table.
C1_RowColourPriority ==
    RowPassEnded =>
        \A i \in DataRows(df) : \A c \in Columns(df) :
            (~HasMarker(df.columns[c], CandidateMarker) /\ ~HasMarker(df.columns[c], FlagMarker))
                => cells[<<i + 1, c>>].fill = RowColour(df, i)

\* the same on the calls whose row pass finishes
RowColourPriorityWhenFinished ==
    pc = "column_colors" =>
        \A i \in DataRows(df) : \A c \in Columns(df) :
            (~HasMarker(df.columns[c], CandidateMarker) /\ ~HasMarker(df.columns[c], FlagMarker))
                => cells[<<i + 1, c>>].fill = RowColour(df, i)

\* C2: when a row rule fires, exactly the cells of the row whose column name
\* neither contains the candidate marker nor starts with '_' get the row colour.
C2_RowColourCells ==
    pc = "column_colors" =>
        \A i \in DataRows(df) : RowColour(df, i) # NO_FILL =>
            \A c \in Columns(df) :
                cells[<<i + 1, c>>].fill =
                    IF ~IsCandidateName(df.columns[c]) /\ ~IsFlagName(df.columns[c])
                    THEN RowColour(df, i) ELSE NO_FILL

\* the same with "contains '_'" in place of "starts with '_'"
RowColourCellsBySubstring ==
    pc = "column_colors" =>
        \A i \in DataRows(df) : RowColour(df, i) # NO_FILL =>
            \A c \in Columns(df) :
                cells[<<i + 1, c>>].fill =
                    IF ~IsCandidateName(df.columns[c]) /\ ~HasMarker(df.columns[c], FlagMarker)
                    THEN RowColour(df, i) ELSE NO_FILL

\* header cells keep the header fill, named columns have their fixed colour
NamedColumnsColoured(cs) ==
    \A c \in Columns(df) :
        /\ cs[<<1, c>>].fill = HEADER_FILL
        /\ df.columns[c] \in NamedColumns =>
              \A i \in DataRows(df) : cs[<<i + 1, c>>].fill = NamedColour(df.columns[c])

\* C3: once the column pass has run, and in the saved file, every data cell
\* of a named column has the column's fixed colour whatever the row rule did,
\* and every header cell keeps the header fill.
C3_NamedColumnColours ==
    /\ AfterColumnPass => NamedColumnsColoured(cells)
    /\ pc = "returned" => NamedColumnsColoured(file.cells)
    /\ pc = "column_colors" => \A c \in Columns(df) : cells[<<1, c>>].fill = HEADER_FILL

\* a saved table with a green row and a red row, candidate 1 solid yellow in both
C3_Witness ==
    /\ pc = "returned"
    /\ HasColumn(df, PartnerCand1)
    /\ \E i, j \in DataRows(df) :
          /\ RowColour(df, i) = COLOR_GREEN
          /\ RowColour(df, j) = COLOR_RED
          /\ file.cells[<<i + 1, ColIndex(df, PartnerCand1)>>].fill = COLOR_YELLOW
          /\ file.cells[<<j + 1, ColIndex(df, PartnerCand1)>>].fill = COLOR_YELLOW
          /\ file.cells[<<i + 1, ColIndex(df, SourcePartnerCol)>>].fill = COLOR_YELLOW_LIGHT

\* C4: the only error that leaves write_to_excel is the I/O error of the save.
C4_OnlyIOErrors == err \in {"none", "OSError"}

\* C5 as stated: in the saved file a numeric amount cell has '#,##0' and right
\* alignment, any other amount cell has neither.
C5_AmountCellsAsStated ==
    pc = "returned" =>
        \A i \in DataRows(df) : \A c \in Columns(df) : IsAmountName(df.columns[c]) =>
            LET cell == file.cells[<<i + 1, c>>]
            IN IF df.rows[i][c].t = "num"
               THEN cell.number_format = "#,##0" /\ cell.horizontal = "right"
               ELSE cell.number_format # "#,##0" /\ cell.horizontal # "right"

\* C5 amended: a numeric amount cell has '#,##0' and right alignment from
\* cell population on; any other amount cell never gets '#,##0', has no
\* alignment until the border pass, and is right-aligned by the border pass.
C5_AmountCells ==
    pc # "call" =>
        \A i \in DataRows(df) : \A c \in Columns(df) : IsAmountName(df.columns[c]) =>
            LET cell == cells[<<i + 1, c>>]
                saved == file.cells[<<i + 1, c>>]
            IN IF df.rows[i][c].t = "num"
               THEN /\ cell.number_format = "#,##0" /\ cell.horizontal = "right"
                    /\ pc = "returned" =>
                          saved.number_format = "#,##0" /\ saved.horizontal = "right"
               ELSE /\ cell.number_format = "General"
                    /\ pc \in {"row_height", "auto_fit", "row_colors", "column_colors",
                               "hide", "borders"} => cell.horizontal = "none"
                    /\ pc = "save" => cell.horizontal = "right"
                    /\ pc = "returned" =>
                          saved.number_format = "General" /\ saved.horizontal = "right"

\* a saved amount column with a number in one row and text or null in another
C5_Witness ==
    /\ pc = "returned"
    /\ \E c \in Columns(df) : \E i, j \in DataRows(df) :
          /\ IsAmountName(df.columns[c])
          /\ df.rows[i][c].t = "num"
          /\ df.rows[j][c].t \in {"str", "null"}
          /\ file.cells[<<i + 1, c>>].number_format = "#,##0"
          /\ file.cells[<<j + 1, c>>].horizontal = "right"

\* display width: 1 per code point <= 127, 2 per other
DisplayWidth(text) == Len(text) + Cardinality({k \in 1..Len(text) : text[k] > 127})

ColumnTexts(d, c) ==
    {d.columns[c]} \cup {ToStr(d.rows[i][c]) : i \in {j \in DataRows(d) : d.rows[j][c].t # "null"}}

WidestText(d, c) == MaxOf({DisplayWidth(text) : text \in ColumnTexts(d, c)})

Clamp(w) == IF w < 10 THEN 10 ELSE IF w > 60 THEN 60 ELSE w

\* the letter of columns 1..26
Letter(c) == <<64 + c>>

\* C6: the width of every column is min(max(W + 2, 10), 60), W the largest
\* display width among the header and the non-null values (1 per code point
\* <= 127, 2 per other); so it lies in 10..60, and 5 full-width characters give 12.
C6_ColumnWidths ==
    AfterAutoFit =>
        \A c \in Columns(df) :
            LET w == column_dimensions[Letter(c)].width
            IN /\ w = Clamp(WidestText(df, c) + 2)
               /\ w >= 10 /\ w <= 60
               /\ (WidestText(df, c) = 10 /\ Wide5Text.s \in ColumnTexts(df, c)) => w = 12

\* a saved table with a column of width 12 for 5 full-width characters, next to
\* a column clamped to 10
C6_Witness ==
    /\ pc = "returned"
    /\ \E c, b \in Columns(df) :
          /\ WidestText(df, c) = 10
          /\ Wide5Text.s \in ColumnTexts(df, c)
          /\ file.column_dimensions[Letter(c)].width = 12
          /\ WidestText(df, b) < 8
          /\ file.column_dimensions[Letter(b)].width = 10


\* the cells of a table with n rows: rows 1..n+1, every column
Grid(d) == {<<r, c>> : r \in 1..(NumRows(d) + 1), c \in Columns(d)}

RenderedCells(d) ==
    ApplyBorders(
        ColorCandidateColumns(ColorRows(PopulateCells(EmptyMap, d), d, 0).cells, d, 1), d)

RenderedColumns(d) == HideFlagColumns(AutoFitColumns(EmptyMap, d), d.columns)

\* C7: what a call persists is a function of that call's table and sheet name
\* alone, whatever earlier calls on the same instance left behind.
C7_FreshGridPerCall ==
    /\ pc \in {"save", "returned"} =>
          /\ title = sheet_name
          /\ DOMAIN cells = Grid(df)
          /\ DOMAIN row_dimensions = 1..(NumRows(df) + 1)
          /\ DOMAIN column_dimensions = {Letter(c) : c \in Columns(df)}
          /\ cells = RenderedCells(df)
          /\ row_dimensions = SetRowHeight(EmptyMap, df)
          /\ column_dimensions = RenderedColumns(df)
    /\ pc = "returned" =>
          file = [written |-> TRUE, title |-> sheet_name, cells |-> RenderedCells(df),
                  row_dimensions |-> SetRowHeight(EmptyMap, df),
                  column_dimensions |-> RenderedColumns(df)]

\* a later call about to save a table with fewer rows and fewer columns than
\* the output of the call before it
C7_Witness ==
    /\ pc = "save"
    /\ file.written
    /\ \E k \in DOMAIN file.cells : k[1] > NumRows(df) + 1
    /\ \E k \in DOMAIN file.cells : k[2] > NumCols(df)
    /\ \E l \in DOMAIN file.column_dimensions : file.column_dimensions[l].hidden
    /\ \A l \in DOMAIN column_dimensions : ~column_dimensions[l].hidden

\* C8: from cell population on the grid holds the header in row 1 and the n
\* data rows in rows 2..n+1 in input order, no cell and no row height beyond
\* row n+1; a table without data rows never raises and is saved as its header.
C8_RowsWritten ==
    pc # "call" =>
        /\ DOMAIN cells = Grid(df)
        /\ \A c \in Columns(df) : cells[<<1, c>>].value = Str(df.columns[c])
        /\ \A i \in DataRows(df) : \A c \in Columns(df) : cells[<<i + 1, c>>].value = df.rows[i][c]
        /\ DOMAIN row_dimensions \subseteq 1..(NumRows(df) + 1)
        /\ NumRows(df) = 0 => err # "KeyError"
        /\ pc = "returned" =>
              /\ DOMAIN file.cells = Grid(df)
              /\ \A k \in Grid(df) : file.cells[k].value = cells[k].value

\* a saved table without data rows whose columns make a table with rows raise
C8_Witness ==
    /\ pc = "returned"
    /\ NumRows(df) = 0
    /\ HasColumn(df, PartnerFlagCol) /\ HasColumn(df, DeptFlagCol)
    /\ HasColumn(df, SourceDeptCol) /\ ~HasColumn(df, SourcePartnerCol)
    /\ {k[1] : k \in DOMAIN file.cells} = {1}

\* hidden exactly when the name starts with '_', width as auto-fit set it
HiddenExactlyFlagColumns(cd) ==
    \A c \in Columns(df) :
        /\ cd[Letter(c)].hidden = IsFlagName(df.columns[c])
        /\ cd[Letter(c)].width = Clamp(WidestText(df, c) + 2)

\* C9: once the hide pass has run, and in the saved file, a column is hidden
\* exactly when its name starts with '_', and keeps the width auto-fit gave it.
C9_FlagColumnsHidden ==
    /\ (pc \in {"borders", "save", "returned"} \/ (pc = "raised" /\ err = "OSError"))
          => HiddenExactlyFlagColumns(column_dimensions)
    /\ pc = "returned" => HiddenExactlyFlagColumns(file.column_dimensions)

\* a saved table with hidden flag columns and a visible column with '_' inside
C9_Witness ==
    /\ pc = "returned"
    /\ HasColumn(df, TaxCodeCol)
    /\ ~file.column_dimensions[Letter(ColIndex(df, TaxCodeCol))].hidden
    /\ file.column_dimensions[Letter(ColIndex(df, PartnerFlagCol))].hidden
    /\ file.column_dimensions[Letter(ColIndex(df, DeptFlagCol))].hidden
    /\ \E i, j \in DataRows(df) :
          ValueAt(df, i, PartnerFlagCol) # ValueAt(df, j, PartnerFlagCol)

\* the order of the passes
PassOrder ==
    <<"call", "row_height", "auto_fit", "row_colors", "column_colors", "hide",
      "borders", "save", "returned">>

Position(p) == CHOOSE i \in 1..Len(PassOrder) : PassOrder[i] = p

\* C10: the passes run in the order population, heights, widths, row colours,
\* column colours, hiding, borders, save; the border pass gives every cell a
\* thin border, left-aligns headers and non-amount data cells, keeps the right
\* alignment of amount cells, and changes no value, fill or number format.
C10_BorderPassLast ==
    [][/\ pc' # pc => (pc' = "raised" \/ Position(pc') = Position(pc) + 1)
       /\ (pc = "save" /\ pc' = "returned") => file'.cells = cells
       /\ (pc = "borders" /\ pc' = "save") =>
             /\ DOMAIN cells' = DOMAIN cells
             /\ \A k \in DOMAIN cells :
                   /\ cells'[k].border = "thin"
                   /\ cells'[k].value = cells[k].value
                   /\ cells'[k].fill = cells[k].fill
                   /\ cells'[k].number_format = cells[k].number_format
                   /\ k[1] = 1 => cells'[k].horizontal = "left"
                   /\ (k[1] > 1 /\ ~IsAmountName(df.columns[k[2]])) =>
                         cells'[k].horizontal = "left" /\ cells'[k].vertical = "center"
                   /\ (k[1] > 1 /\ IsAmountName(df.columns[k[2]])
                            /\ cells[k].horizontal = "right") =>
                         cells'[k].horizontal = "right" /\ cells'[k].vertical = "center"
      ]_vars

\* the border pass has run over a row-coloured number in an amount column,
\* right-aligned since population, next to a left-aligned cell of a named column
C10_Witness ==
    /\ pc = "save"
    /\ \E k, h \in DOMAIN cells :
          /\ k[1] > 1 /\ IsAmountName(df.columns[k[2]])
          /\ cells[k].value.t = "num" /\ cells[k].number_format = "#,##0"
          /\ cells[k].horizontal = "right" /\ cells[k].border = "thin"
          /\ cells[k].fill \in {COLOR_GREEN, COLOR_RED}
          /\ h[1] = k[1] /\ cells[h].fill = COLOR_BLUE_LIGHT
          /\ cells[h].horizontal = "left" /\ cells[h].border = "thin"

====
